---- MODULE Spec2Model ----
(***************************************************************************)
(* Model of backend/main.py, the Simple Poll API: poll creation, the vote  *)
(* admission pipeline of vote_poll (option validation, attempt log, rate   *)
(* limit, vote ledger with its unique index, atomic aggregate update) and *)
(* the per-poll change notifier (poll_events, asyncio.Event).              *)
(*                                                                         *)
(* The three MongoDB collections are the variables polls, votes and        *)
(* vote_attempts.  Every pymongo call of vote_poll is one atomic step of   *)
(* the store, so requests served by different workers interleave between   *)
(* those calls; the code a request runs between two calls is local and is  *)
(* folded into the step of the call that follows it.                       *)
(***************************************************************************)
EXTENDS Integers, Sequences, FiniteSets, TLC

\* ---------------------------------------------------------------- bounds
\* Vote requests submitted in one behaviour.
MaxReqs == 3
\* Last instant of the clock (seconds).
MaxTime == 2
\* uuid4 tokens minted for requests that carry no voter_id cookie.
MaxMint == 1
\* Event streams (GET /polls/{poll_id}/events) opened in one behaviour.
MaxObs == 2

\* --------------------------------------------------------- configuration
IP_HASH_SALT == "change-me-in-production"
QUESTION_MAX_LENGTH == 500
OPTIONS_MAX == 20

\* Python None: a value no str equals.
None == <<"None">>

\* ------------------------------------------------------------ text values
\* A Python str is a sequence of one-character strings.
RECURSIVE lstrip(_)
lstrip(s) == IF s # <<>> /\ Head(s) = " " THEN lstrip(Tail(s)) ELSE s

RECURSIVE rstrip(_)
rstrip(s) ==
    IF s # <<>> /\ s[Len(s)] = " " THEN rstrip(SubSeq(s, 1, Len(s) - 1)) ELSE s

\* str.strip()
strip(s) == rstrip(lstrip(s))

\* s.split(",")[0]
RECURSIVE split_first(_)
split_first(s) ==
    IF s = <<>> \/ Head(s) = "," THEN <<>> ELSE <<Head(s)>> \o split_first(Tail(s))

\* [f(x) for x in seq if keep(x)] with f = keep-argument = strip
RECURSIVE cleaned_items(_)
cleaned_items(value) ==
    IF value = <<>> THEN <<>>
    ELSE IF strip(Head(value)) # <<>>
         THEN <<strip(Head(value))>> \o cleaned_items(Tail(value))
         ELSE cleaned_items(Tail(value))

\* CreatePollRequest.validate_question: [ok, value]
validate_question(value) ==
    IF Len(value) < 1 \/ Len(value) > QUESTION_MAX_LENGTH \/ strip(value) = <<>>
    THEN [ok |-> FALSE, value |-> <<>>]
    ELSE [ok |-> TRUE, value |-> strip(value)]

\* CreatePollRequest.validate_options: [ok, value]
validate_options(value) ==
    LET cleaned == cleaned_items(value)
    IN  IF Len(cleaned) < 2 \/ Len(cleaned) > OPTIONS_MAX
        THEN [ok |-> FALSE, value |-> <<>>]
        ELSE [ok |-> TRUE, value |-> cleaned]

\* ------------------------------------------------------------- identities
\* get_client_ip: first x-forwarded-for entry, else the peer host, else
\* "unknown".
get_client_ip(forwarded_for, client_host) ==
    IF forwarded_for # <<>> /\ strip(split_first(forwarded_for)) # <<>>
    THEN strip(split_first(forwarded_for))
    ELSE IF client_host # None /\ client_host # <<>> THEN client_host
    ELSE <<"u", "n", "k", "n", "o", "w", "n">>

\* hash_ip: sha256 of "<salt>:<ip>", a digest that is equal exactly for equal
\* (salt, ip).
hash_ip(ip) == <<"sha256", IP_HASH_SALT, ":", ip>>

\* datetime.isoformat()
isoformat(t) == [iso |-> t]

\* secrets.token_urlsafe(6): the identifiers a poll can get.
PollIds == {"p1", "p2"}

\* secrets.token_urlsafe(8) for the i-th option of poll p: a token no other
\* option carries.
option_token(p, i) == <<p, i>>

\* str(uuid.uuid4()) for the n-th minted voter.
uuid4(n) == <<"uuid4", ToString(n)>>

\* ------------------------------------------------------------------ state
VARIABLES
    RATE_LIMIT_WINDOW_SECONDS,  \* int(os.getenv(...)), read once at import
    RATE_LIMIT_MAX_ATTEMPTS,    \* int(os.getenv(...)), read once at import
    polls,          \* db.polls: _id -> document, for the polls that exist
    created,        \* poll id -> the answer create_poll returned for it
    votes,          \* db.votes: the ledger, a set of vote documents
    vote_attempts,  \* db.vote_attempts: the attempt log, in insertion order
    poll_events,    \* poll_events: poll id -> is the asyncio.Event set
    set_calls,      \* history: poll id -> number of Event.set() calls so far
    req,            \* the vote requests: position in vote_poll and locals
    minted,         \* number of uuid4 voter ids minted so far
    now,            \* the clock read by now_utc()
    obs             \* the event streams: position in event_generator

env == <<RATE_LIMIT_WINDOW_SECONDS, RATE_LIMIT_MAX_ATTEMPTS>>
vars == <<env, polls, created, votes, vote_attempts, poll_events, set_calls, req, minted, now, obs>>

Reqs == 1..MaxReqs
Obs == 1..MaxObs

\* ------------------------------------------------------------ input sets
\* Request bodies of POST /polls: question and raw option texts.
Questions == {<<"q">>, <<" ">>}
RawOptions == {<<<<"a">>, <<"b">>>>, <<<<" ", "a">>, <<" ">>, <<"b", " ">>>>,
               <<<<"a">>, <<" ">>>>}

\* The option tokens polls get (every poll of the model has two options).
OptionIds == {option_token(p, i) : p \in PollIds, i \in 1..2}

\* A vote request as it arrives: path parameter, body, cookie, headers, peer.
VoteRequest(poll_id, option_id, cookie, forwarded_for, client_host) ==
    [poll_id |-> poll_id, option_id |-> option_id, cookie |-> cookie,
     forwarded_for |-> forwarded_for, client_host |-> client_host]

\* Clients voting on poll p1 from one address (peer host "b" behind an
\* x-forwarded-for header whose first entry is blank), with two cookies.
VotersOneAddress ==
    {VoteRequest("p1", o, c, <<" ", ",", "a">>, <<"b">>) :
        o \in {option_token("p1", 1), option_token("p1", 2)},
        c \in {<<"v", "1">>, <<"v", "2">>}}

\* Clients voting on poll p1 from two addresses (forwarded "a", or no
\* header and no peer: "unknown"), with cookie v1 or without a cookie.
VotersTwoAddresses ==
    {VoteRequest("p1", o, c, f, None) :
        o \in {option_token("p1", 1), option_token("p2", 1)},
        c \in {<<"v", "1">>, None, <<>>},
        f \in {<<" ", "a", ",", "b">>, <<>>}}

\* ------------------------------------------------------- store operations
\* db.polls.find_one({"_id": poll_id, "options.id": option_id}) is not None
option_matches(doc, option_id) ==
    \E i \in 1..Len(doc.options) : doc.options[i].id = option_id

find_poll_option(ps, poll_id, option_id) ==
    poll_id \in DOMAIN ps /\ option_matches(ps[poll_id], option_id)

\* db.polls.find_one({"_id": poll_id}) is not None
find_poll(ps, poll_id) == poll_id \in DOMAIN ps

\* Mutant: "$gt" in place of "$gte" (the window boundary excluded).
count_documents_gt(log, poll_id, ip_hash, start) ==
    Cardinality({i \in 1..Len(log) :
                    /\ log[i].poll_id = poll_id
                    /\ log[i].ip_hash = ip_hash
                    /\ log[i].attempted_at > start})

\* db.vote_attempts.count_documents({"poll_id", "ip_hash",
\*                                   "attempted_at": {"$gte": window_start}})
count_documents(log, poll_id, ip_hash, window_start) ==
    Cardinality({i \in 1..Len(log) :
                    /\ log[i].poll_id = poll_id
                    /\ log[i].ip_hash = ip_hash
                    /\ log[i].attempted_at >= window_start})

\* if attempts > RATE_LIMIT_MAX_ATTEMPTS
over_limit(attempts) == attempts > RATE_LIMIT_MAX_ATTEMPTS

\* window_start = created_at - timedelta(seconds=RATE_LIMIT_WINDOW_SECONDS)
window_start(created_at) == created_at - RATE_LIMIT_WINDOW_SECONDS

\* Mutant: the index on (poll_id, voter_id) created without unique=True.
duplicate_key_not_unique(ledger, poll_id, voter_id) == FALSE

\* The unique index on (poll_id, voter_id) of db.votes: insert_one raises
\* DuplicateKeyError exactly when a document with that key exists.
duplicate_key(ledger, poll_id, voter_id) ==
    \E v \in ledger : v.poll_id = poll_id /\ v.voter_id = voter_id

\* Position the positional operator "$" resolves to: the first array element
\* matched by "options.id".
first_match(options, option_id) ==
    CHOOSE i \in 1..Len(options) :
        /\ options[i].id = option_id
        /\ \A j \in 1..(i - 1) : options[j].id # option_id

\* Mutant: the update document without "total_votes" in $inc.
apply_vote_without_total(doc, option_id, created_at) ==
    LET k == first_match(doc.options, option_id)
    IN  [doc EXCEPT !.options[k].votes = @ + 1,
                    !.version = @ + 1,
                    !.updated_at = created_at]

\* Mutant: the update document without "version" in $inc.
apply_vote_without_version(doc, option_id, created_at) ==
    LET k == first_match(doc.options, option_id)
    IN  [doc EXCEPT !.options[k].votes = @ + 1,
                    !.total_votes = @ + 1,
                    !.updated_at = created_at]

\* Mutant: "options.0.votes" in place of the positional "options.$.votes".
apply_vote_first_option(doc, option_id, created_at) ==
    [doc EXCEPT !.options[1].votes = @ + 1,
                !.version = @ + 1,
                !.total_votes = @ + 1,
                !.updated_at = created_at]

\* Mutant: the all-positional "options.$[].votes" in place of "options.$.votes".
apply_vote_all_options(doc, option_id, created_at) ==
    [doc EXCEPT !.options = [i \in 1..Len(doc.options) |->
                                [doc.options[i] EXCEPT !.votes = @ + 1]],
                !.version = @ + 1,
                !.total_votes = @ + 1,
                !.updated_at = created_at]

\* update_one's update document applied to a matched poll document:
\* $inc options.$.votes, version, total_votes by 1; $set updated_at.
apply_vote(doc, option_id, created_at) ==
    LET k == first_match(doc.options, option_id)
    IN  [doc EXCEPT !.options[k].votes = @ + 1,
                    !.version = @ + 1,
                    !.total_votes = @ + 1,
                    !.updated_at = created_at]

\* Mutant: a document read without "total_votes" (.get's default is 0).
serialize_poll_total_missing(poll_id, doc) ==
    [id |-> poll_id,
     question |-> doc.question,
     version |-> doc.version,
     created_at |-> isoformat(doc.created_at),
     updated_at |-> isoformat(doc.updated_at),
     total_votes |-> 0,
     options |-> doc.options]

\* serialize_poll of an existing document
serialize_poll(poll_id, doc) ==
    [id |-> poll_id,
     question |-> doc.question,
     version |-> doc.version,
     created_at |-> isoformat(doc.created_at),
     updated_at |-> isoformat(doc.updated_at),
     total_votes |-> doc.total_votes,
     options |-> doc.options]

\* get_poll: the answer of GET /polls/{poll_id} in the current state
get_poll(poll_id) ==
    IF find_poll(polls, poll_id)
    THEN [status |-> 200, body |-> <<serialize_poll(poll_id, polls[poll_id])>>]
    ELSE [status |-> 404, body |-> <<>>]

\* upsert_poll_event: the registry with an entry for poll_id
upsert_poll_event(events, poll_id) ==
    IF poll_id \in DOMAIN events THEN events
    ELSE [k \in DOMAIN events \cup {poll_id} |->
             IF k = poll_id THEN FALSE ELSE events[k]]

\* notify_poll_change: upsert_poll_event(poll_id).set()
notify_poll_change(events, poll_id) ==
    [upsert_poll_event(events, poll_id) EXCEPT ![poll_id] = TRUE]

\* asyncio.Event.is_set() of the poll's event (no entry: no event yet)
is_set(events, poll_id) == poll_id \in DOMAIN events /\ events[poll_id]

\* asyncio.Event.clear()
clear(events, poll_id) == [events EXCEPT ![poll_id] = FALSE]

\* Mutant: set() resolving only the first waiter's future.
wake_waiters_first(observers, events, poll_id) ==
    LET W == {o \in DOMAIN observers : /\ observers[o].pc = "waiting"
                                       /\ observers[o].poll_id = poll_id}
    IN  [o \in DOMAIN observers |->
            IF o \in W /\ (\A q \in W : o <= q) /\ ~is_set(events, poll_id)
            THEN [observers[o] EXCEPT !.pc = "woken"]
            ELSE observers[o]]

\* asyncio.Event.set() seen from the tasks: when the flag is not set yet,
\* the future of every task waiting in wait() on this event is resolved.
wake_waiters(observers, events, poll_id) ==
    [o \in DOMAIN observers |->
        IF /\ observers[o].pc = "waiting"
           /\ observers[o].poll_id = poll_id
           /\ ~is_set(events, poll_id)
        THEN [observers[o] EXCEPT !.pc = "woken"]
        ELSE observers[o]]

\* the options list built by create_poll
new_options(poll_id, texts) ==
    [i \in 1..Len(texts) |->
        [id |-> option_token(poll_id, i), text |-> texts[i], votes |-> 0]]

\* poll_doc of create_poll (without its _id, the key of polls)
new_poll_doc(poll_id, question, texts, created_at) ==
    [question |-> question,
     created_at |-> created_at,
     updated_at |-> created_at,
     version |-> 1,
     total_votes |-> 0,
     options |-> new_options(poll_id, texts)]

\* ------------------------------------------------------------------- Init
\* A request slot before its request arrives.  logged, recorded, applied:
\* the writes the request has done; version_after, votes_after: the version
\* and the option's votes its own update_one produced.
NoRequest ==
    [pc |-> "idle", poll_id |-> "", option_id |-> <<>>, voter_id |-> <<>>,
     ip_hash |-> <<>>, created_at |-> 0, status |-> 0,
     logged |-> FALSE, recorded |-> FALSE, applied |-> FALSE,
     version_after |-> 0, votes_after |-> 0,
     body |-> <<>>, set_cookie |-> <<>>]

\* An event stream before its client connects.  since, heard: the number of
\* set() calls on its poll's event when it last called wait() and when it last
\* yielded a marker; markers: the markers it yielded.
NoObserver ==
    [pc |-> "idle", poll_id |-> "", since |-> 0, heard |-> 0, markers |-> 0]

\* After startup(): empty collections (the indexes exist), empty registry.
InitEnv(window_seconds, max_attempts) ==
    /\ RATE_LIMIT_WINDOW_SECONDS = window_seconds
    /\ RATE_LIMIT_MAX_ATTEMPTS = max_attempts
    /\ polls = <<>>
    /\ created = <<>>
    /\ votes = {}
    /\ vote_attempts = <<>>
    /\ poll_events = <<>>
    /\ set_calls = [p \in PollIds |-> 0]
    /\ req = [r \in Reqs |-> NoRequest]
    /\ minted = 0
    /\ now = 0
    /\ obs = [o \in Obs |-> NoObserver]

\* the mapping ps with doc inserted or replaced under key poll_id
put_poll(ps, poll_id, doc) ==
    [k \in DOMAIN ps \cup {poll_id} |-> IF k = poll_id THEN doc ELSE ps[k]]

\* ---------------------------------------------------------------- actions
\* Time passes, up to the instant last.
Tick(last) ==
    /\ now < last
    /\ now' = now + 1
    /\ UNCHANGED <<env, obs, created, polls, votes, vote_attempts, poll_events, set_calls, req, minted>>

\* POST /polls with a body that passes CreatePollRequest's validators (a
\* body that fails them is answered 422 before create_poll runs; an _id that
\* exists makes insert_one raise, and nothing changes either).
create_poll(poll_id, question, options) ==
    /\ validate_question(question).ok
    /\ validate_options(options).ok
    /\ poll_id \notin DOMAIN polls
    /\ polls' = put_poll(polls, poll_id,
                         new_poll_doc(poll_id, validate_question(question).value,
                                      validate_options(options).value, now))
    /\ poll_events' = notify_poll_change(poll_events, poll_id)
    /\ obs' = wake_waiters(obs, poll_events, poll_id)
    /\ set_calls' = [set_calls EXCEPT ![poll_id] = @ + 1]
    /\ created' = put_poll(created, poll_id,
                           [data |-> serialize_poll(poll_id, polls'[poll_id]),
                            share_path |-> <<"/?poll=", poll_id>>])
    /\ UNCHANGED <<env, votes, vote_attempts, req, minted, now>>

\* voter_id or str(uuid.uuid4())
current_voter_id(cookie, n) ==
    IF cookie = None \/ cookie = <<>> THEN uuid4(n + 1) ELSE cookie

\* The requests inside vote_poll.
in_flight == {q \in Reqs : req[q].pc \notin {"idle", "done"}}

\* vote_poll, lines 187-194: the locals and the lookup of poll and option.
\* Requests are numbered in their order of arrival; at most `workers` of
\* them are inside vote_poll at a time.
vote_receive(r, poll_id, option_id, cookie, forwarded_for, client_host, workers) ==
    /\ req[r].pc = "idle"
    /\ \A q \in Reqs : q < r => req[q].pc # "idle"
    /\ Cardinality(in_flight) < workers
    /\ (cookie = None \/ cookie = <<>>) => minted < MaxMint
    /\ minted' = IF cookie = None \/ cookie = <<>> THEN minted + 1 ELSE minted
    /\ req' = [req EXCEPT ![r] =
                 [NoRequest EXCEPT
                    !.poll_id = poll_id,
                    !.option_id = option_id,
                    !.voter_id = current_voter_id(cookie, minted),
                    !.ip_hash = hash_ip(get_client_ip(forwarded_for, client_host)),
                    !.created_at = now,
                    !.pc = IF find_poll_option(polls, poll_id, option_id)
                           THEN "log_attempt" ELSE "check_exists"]]
    /\ UNCHANGED <<env, obs, created, polls, votes, vote_attempts, poll_events, set_calls, now>>

\* Mutant: "Poll not found" raised for both cases.
vote_check_exists_always_404(r) ==
    /\ req[r].pc = "check_exists"
    /\ req' = [req EXCEPT ![r].pc = "done", ![r].status = 404]
    /\ UNCHANGED <<env, obs, created, polls, votes, vote_attempts, poll_events, set_calls,
                   minted, now>>

\* vote_poll, lines 195-198: no match; tell a missing poll from a bad option.
vote_check_exists(r) ==
    /\ req[r].pc = "check_exists"
    /\ req' = [req EXCEPT ![r].pc = "done",
                          ![r].status = IF find_poll(polls, req[r].poll_id)
                                        THEN 400 ELSE 404]
    /\ UNCHANGED <<env, obs, created, polls, votes, vote_attempts, poll_events, set_calls, minted, now>>

\* Mutant: the attempt counted without being inserted first.
vote_log_attempt_skipped(r) ==
    /\ req[r].pc = "log_attempt"
    /\ req' = [req EXCEPT ![r].pc = "count", ![r].logged = TRUE]
    /\ UNCHANGED <<env, obs, created, polls, votes, vote_attempts, poll_events, set_calls,
                   minted, now>>

\* vote_poll, lines 200-202: db.vote_attempts.insert_one
vote_log_attempt(r) ==
    /\ req[r].pc = "log_attempt"
    /\ vote_attempts' = Append(vote_attempts,
                               [poll_id |-> req[r].poll_id,
                                ip_hash |-> req[r].ip_hash,
                                attempted_at |-> req[r].created_at])
    /\ req' = [req EXCEPT ![r].pc = "count", ![r].logged = TRUE]
    /\ UNCHANGED <<env, obs, created, polls, votes, poll_events, set_calls, minted, now>>

\* Mutant: the rate check placed after the ledger insert.
vote_rate_check_after_insert(r) ==
    LET attempts == count_documents(vote_attempts, req[r].poll_id, req[r].ip_hash,
                                    window_start(req[r].created_at))
        dup == duplicate_key(votes, req[r].poll_id, req[r].voter_id)
    IN  /\ req[r].pc = "count"
        /\ votes' = IF dup THEN votes
                    ELSE votes \cup {[poll_id |-> req[r].poll_id,
                                      option_id |-> req[r].option_id,
                                      voter_id |-> req[r].voter_id,
                                      ip_hash |-> req[r].ip_hash,
                                      created_at |-> req[r].created_at]}
        /\ req' = [req EXCEPT
                     ![r].pc = IF dup \/ over_limit(attempts) THEN "done" ELSE "update",
                     ![r].status = IF dup THEN 409
                                   ELSE IF over_limit(attempts) THEN 429 ELSE 0,
                     ![r].recorded = ~dup /\ ~over_limit(attempts)]
        /\ UNCHANGED <<env, obs, created, polls, vote_attempts, poll_events, set_calls,
                       minted, now>>

\* vote_poll, lines 203-207: count the window, 429 when over the limit
vote_rate_check(r) ==
    LET attempts == count_documents(vote_attempts, req[r].poll_id, req[r].ip_hash,
                                    window_start(req[r].created_at))
    IN  /\ req[r].pc = "count"
        /\ req' = [req EXCEPT
                     ![r].pc = IF over_limit(attempts) THEN "done" ELSE "insert_vote",
                     ![r].status = IF over_limit(attempts) THEN 429 ELSE 0]
        /\ UNCHANGED <<env, obs, created, polls, votes, vote_attempts, poll_events, set_calls, minted, now>>

\* Mutant: the aggregate incremented before the ledger insert is tried.
vote_insert_after_update(r) ==
    /\ req[r].pc = "insert_vote"
    /\ polls' = put_poll(polls, req[r].poll_id,
                         apply_vote(polls[req[r].poll_id], req[r].option_id,
                                    req[r].created_at))
    /\ IF duplicate_key(votes, req[r].poll_id, req[r].voter_id)
       THEN /\ req' = [req EXCEPT ![r].pc = "done", ![r].status = 409]
            /\ UNCHANGED votes
       ELSE /\ votes' = votes \cup {[poll_id |-> req[r].poll_id,
                                     option_id |-> req[r].option_id,
                                     voter_id |-> req[r].voter_id,
                                     ip_hash |-> req[r].ip_hash,
                                     created_at |-> req[r].created_at]}
            /\ req' = [req EXCEPT ![r].pc = "respond", ![r].recorded = TRUE,
                                  ![r].applied = TRUE]
    /\ UNCHANGED <<env, obs, created, vote_attempts, poll_events, set_calls, minted, now>>

\* Mutant: DuplicateKeyError caught and passed over.
vote_insert_swallow_duplicate(r) ==
    /\ req[r].pc = "insert_vote"
    /\ votes' = IF duplicate_key(votes, req[r].poll_id, req[r].voter_id) THEN votes
                ELSE votes \cup {[poll_id |-> req[r].poll_id,
                                  option_id |-> req[r].option_id,
                                  voter_id |-> req[r].voter_id,
                                  ip_hash |-> req[r].ip_hash,
                                  created_at |-> req[r].created_at]}
    /\ req' = [req EXCEPT ![r].pc = "update", ![r].recorded = TRUE]
    /\ UNCHANGED <<env, obs, created, polls, vote_attempts, poll_events, set_calls, minted, now>>

\* vote_poll, lines 209-220: db.votes.insert_one, 409 on DuplicateKeyError
vote_insert(r) ==
    /\ req[r].pc = "insert_vote"
    /\ IF duplicate_key(votes, req[r].poll_id, req[r].voter_id)
       THEN /\ req' = [req EXCEPT ![r].pc = "done", ![r].status = 409]
            /\ UNCHANGED votes
       ELSE /\ votes' = votes \cup {[poll_id |-> req[r].poll_id,
                                     option_id |-> req[r].option_id,
                                     voter_id |-> req[r].voter_id,
                                     ip_hash |-> req[r].ip_hash,
                                     created_at |-> req[r].created_at]}
            /\ req' = [req EXCEPT ![r].pc = "update", ![r].recorded = TRUE]
    /\ UNCHANGED <<env, obs, created, polls, vote_attempts, poll_events, set_calls, minted, now>>

\* vote_poll, lines 222-230: db.polls.update_one, 400 when nothing matched
vote_update(r) ==
    /\ req[r].pc = "update"
    /\ IF find_poll_option(polls, req[r].poll_id, req[r].option_id)
       THEN /\ polls' = put_poll(polls, req[r].poll_id,
                                 apply_vote(polls[req[r].poll_id], req[r].option_id,
                                            req[r].created_at))
            /\ req' = [req EXCEPT
                         ![r].pc = "respond",
                         ![r].applied = TRUE,
                         ![r].version_after = polls'[req[r].poll_id].version,
                         ![r].votes_after =
                            polls'[req[r].poll_id].options[
                                first_match(polls[req[r].poll_id].options,
                                            req[r].option_id)].votes]
       ELSE /\ req' = [req EXCEPT ![r].pc = "done", ![r].status = 400]
            /\ UNCHANGED polls
    /\ UNCHANGED <<env, obs, created, votes, vote_attempts, poll_events, set_calls, minted, now>>

\* vote_poll, lines 232-241: re-read the poll, notify, set the cookie, answer
vote_respond(r) ==
    /\ req[r].pc = "respond"
    /\ IF find_poll(polls, req[r].poll_id)
       THEN /\ poll_events' = notify_poll_change(poll_events, req[r].poll_id)
            /\ obs' = wake_waiters(obs, poll_events, req[r].poll_id)
            /\ set_calls' = [set_calls EXCEPT ![req[r].poll_id] = @ + 1]
            /\ req' = [req EXCEPT
                         ![r].pc = "done",
                         ![r].status = 200,
                         ![r].set_cookie = req[r].voter_id,
                         ![r].body = <<serialize_poll(req[r].poll_id,
                                                      polls[req[r].poll_id])>>]
       ELSE /\ req' = [req EXCEPT ![r].pc = "done", ![r].status = 404]
            /\ UNCHANGED <<poll_events, set_calls, obs>>
    /\ UNCHANGED <<env, created, polls, votes, vote_attempts, minted, now>>

\* The steps of the service for clients that create polls with the ids
\* Created and send the vote requests Inputs, with at most `workers` vote
\* requests served at a time.
NextRequests(Created, Inputs, workers) ==
    \/ \E poll_id \in Created, question \in Questions, options \in RawOptions :
          create_poll(poll_id, question, options)
    \/ \E r \in Reqs, i \in Inputs :
          vote_receive(r, i.poll_id, i.option_id, i.cookie, i.forwarded_for,
                       i.client_host, workers)
    \/ \E r \in Reqs : vote_check_exists(r)
    \/ \E r \in Reqs : vote_log_attempt(r)
    \/ \E r \in Reqs : vote_rate_check(r)
    \/ \E r \in Reqs : vote_insert(r)
    \/ \E r \in Reqs : vote_update(r)
    \/ \E r \in Reqs : vote_respond(r)

\* The same steps while time passes, until the instant last.
NextOn(Created, Inputs, last, workers) ==
    \/ Tick(last)
    \/ NextRequests(Created, Inputs, workers)

\* Poll p1, two voters, one address, within two instants; window 1 s, at
\* most 3 attempts.
Init == InitEnv(1, 3)
Next == NextOn({"p1"}, VotersOneAddress, MaxTime - 1, MaxReqs)
Spec == Init /\ [][Next]_vars

\* Poll p1, two addresses, voters with and without cookie; window 1 s, at
\* most 1 attempt.
InitRate == InitEnv(1, 1)
NextRate == NextOn({"p1"}, VotersTwoAddresses, MaxTime, MaxReqs)
SpecRate == InitRate /\ [][NextRate]_vars

\* The same clients and configuration, one vote request at a time: each
\* request is answered before the next one arrives.
NextSeq == NextOn({"p1"}, VotersTwoAddresses, MaxTime, 1)
SpecSeq == InitRate /\ [][NextSeq]_vars

\* ----------------------------------------------------------- event streams
connected(o) == obs[o].pc \in {"start", "waiting", "woken", "sending"}

\* poll_events_stream, lines 245-254: the handler takes the poll's event out
\* of the registry (making the entry when there is none) and answers with the
\* stream; event_generator has not run yet.  Streams are numbered in their
\* order of arrival.
poll_events_stream(o, poll_id) ==
    /\ obs[o].pc = "idle"
    /\ \A q \in Obs : q < o => obs[q].pc # "idle"
    /\ poll_events' = upsert_poll_event(poll_events, poll_id)
    /\ obs' = [obs EXCEPT ![o] = [NoObserver EXCEPT !.pc = "start",
                                                    !.poll_id = poll_id,
                                                    !.since = set_calls[poll_id],
                                                    !.heard = set_calls[poll_id]]]
    /\ UNCHANGED <<env, created, polls, votes, vote_attempts, set_calls, req, minted, now>>

\* event_generator, lines 249-252, entered from the start or after the
\* transport took the last marker: await event.wait().  With the flag set,
\* wait() returns at once and the task goes on, without a suspension, to
\* clear() and the yield; otherwise the task is suspended on a new future.
event_wait(o) ==
    /\ obs[o].pc \in {"start", "sending"}
    /\ IF is_set(poll_events, obs[o].poll_id)
       THEN /\ poll_events' = clear(poll_events, obs[o].poll_id)
            /\ obs' = [obs EXCEPT ![o].pc = "sending",
                                  ![o].since = set_calls[obs[o].poll_id],
                                  ![o].heard = set_calls[obs[o].poll_id],
                                  ![o].markers = @ + 1]
       ELSE /\ obs' = [obs EXCEPT ![o].pc = "waiting",
                                  ![o].since = set_calls[obs[o].poll_id]]
            /\ UNCHANGED poll_events
    /\ UNCHANGED <<env, created, polls, votes, vote_attempts, set_calls, req, minted, now>>

\* Mutant: the generator without event.clear().
event_resume_no_clear(o) ==
    /\ obs[o].pc = "woken"
    /\ obs' = [obs EXCEPT ![o].pc = "sending",
                          ![o].heard = set_calls[obs[o].poll_id],
                          ![o].markers = @ + 1]
    /\ UNCHANGED <<env, created, polls, votes, vote_attempts, poll_events, set_calls, req,
                   minted, now>>

\* event_generator, lines 250-252: the task whose future set() resolved is
\* resumed by the event loop: wait() returns, event.clear(), yield.
event_resume(o) ==
    /\ obs[o].pc = "woken"
    /\ poll_events' = clear(poll_events, obs[o].poll_id)
    /\ obs' = [obs EXCEPT ![o].pc = "sending",
                          ![o].heard = set_calls[obs[o].poll_id],
                          ![o].markers = @ + 1]
    /\ UNCHANGED <<env, created, polls, votes, vote_attempts, set_calls, req, minted, now>>

\* The client closes the connection: the generator's task is cancelled at
\* the await it is suspended in.
disconnect(o) ==
    /\ connected(o)
    /\ obs' = [obs EXCEPT ![o].pc = "closed"]
    /\ UNCHANGED <<env, created, polls, votes, vote_attempts, poll_events, set_calls, req,
                   minted, now>>

\* Clients voting on poll p1 for its first option, with two cookies.
VotersOneOption ==
    {VoteRequest("p1", option_token("p1", 1), c, <<" ", ",", "a">>, <<"b">>) :
        c \in {<<"v", "1">>, <<"v", "2">>}}

\* The steps of the event streams on the poll ids Streamed.
NextStreams(Streamed) ==
    \/ \E o \in Obs, poll_id \in Streamed : poll_events_stream(o, poll_id)
    \/ \E o \in Obs : event_wait(o)
    \/ \E o \in Obs : event_resume(o)
    \/ \E o \in Obs : disconnect(o)

\* Poll p1 with voters on one option, one request at a time and all within
\* one instant, and event streams on p1 and on an identifier no poll has.
\* The event loop resumes a task whose future is resolved, and the transport
\* takes a yielded marker.
NextObs == NextRequests({"p1"}, VotersOneOption, 1) \/ NextStreams(PollIds)
SpecObs ==
    /\ Init /\ [][NextObs]_vars
    /\ \A o \in Obs : WF_vars(event_resume(o)) /\ WF_vars(event_wait(o))

\* Clients voting on the polls p1 and p2 for the poll's own options, from one
\* address, with two cookies.
VotersTwoPolls ==
    {VoteRequest(p, option_token(p, i), c, <<>>, <<"b">>) :
        p \in PollIds, i \in 1..2, c \in {<<"v", "1">>, <<"v", "2">>}}

\* Polls p1 and p2 and voters on both, all within one instant; window 1 s,
\* at most 3 attempts.
NextTwo == NextRequests(PollIds, VotersTwoPolls, MaxReqs)
SpecTwo == Init /\ [][NextTwo]_vars

\* The same polls and voters while time passes, one vote request at a time.
NextTwoSeq == NextOn(PollIds, VotersTwoPolls, MaxTime - 1, 1)
SpecTwoSeq == Init /\ [][NextTwoSeq]_vars

\* ================================================================ claims
\* Stages of a vote request, read off its position and status.
arrived(r) == req[r].pc # "idle"
done(r) == req[r].pc = "done"
\* rejected before the ledger: NotFound, InvalidOption or RateLimited
early_rejected(r) == done(r) /\ ~req[r].recorded /\ req[r].status \in {404, 400, 429}
requests_of(poll_id, voter_id) ==
    {r \in Reqs : arrived(r) /\ req[r].poll_id = poll_id /\ req[r].voter_id = voter_id}
voter_ids == {req[r].voter_id : r \in {q \in Reqs : arrived(q)}}

RECURSIVE sum_votes(_)
sum_votes(options) ==
    IF options = <<>> THEN 0 ELSE Head(options).votes + sum_votes(Tail(options))

\* C1: when all the vote requests one voter id sent to one poll are answered
\* and none of them was rejected before the ledger (valid option, within the
\* rate limit), exactly one was accepted (200), all the others ended as
\* DuplicateVote (409), the ledger holds one vote of that voter on that poll,
\* and exactly one of them incremented the poll, whose total_votes counts the
\* applied increments; at no time has more than one of them passed the ledger.
C1_OneAcceptedPerVoter ==
    \A p \in PollIds, v \in voter_ids :
        LET N == requests_of(p, v)
        IN  /\ Cardinality({r \in N : req[r].recorded}) <= 1
            /\ (N # {} /\ \A r \in N : done(r) /\ ~early_rejected(r)) =>
                  /\ Cardinality({r \in N : req[r].status = 200}) = 1
                  /\ \A r \in N : req[r].status \in {200, 409}
                  /\ Cardinality({x \in votes : x.poll_id = p /\ x.voter_id = v}) = 1
                  /\ Cardinality({r \in N : req[r].applied}) = 1
                  /\ polls[p].total_votes =
                        Cardinality({r \in Reqs : req[r].poll_id = p /\ req[r].applied})

\* Three requests of one voter on p1 were in vote_poll together: the first to
\* arrive lost the ledger insert to a later one; one vote was counted.
C1_Witness ==
    /\ \A r \in 1..3 : done(r) /\ req[r].poll_id = "p1" /\ req[r].voter_id = req[1].voter_id
    /\ req[1].status = 409 /\ req[2].status = 409 /\ req[3].status = 200
    /\ polls["p1"].total_votes = 1

\* C2: in every reachable state each poll document has total_votes equal to
\* the sum of its options' votes, and so has every snapshot returned by
\* get_poll (read in that state), by create_poll and by an accepted vote.
C2_TotalIsSum ==
    /\ \A p \in DOMAIN polls : polls[p].total_votes = sum_votes(polls[p].options)
    /\ \A p \in PollIds : get_poll(p).status = 200 =>
            get_poll(p).body[1].total_votes = sum_votes(get_poll(p).body[1].options)
    /\ \A p \in DOMAIN created :
            created[p].data.total_votes = sum_votes(created[p].data.options)
    /\ \A r \in Reqs : req[r].body # <<>> =>
            req[r].body[1].total_votes = sum_votes(req[r].body[1].options)

\* An accepted vote got a snapshot with two votes, one on each option.
C2_Witness ==
    \E r \in Reqs :
        /\ req[r].status = 200
        /\ req[r].body[1].total_votes = 2
        /\ req[r].body[1].options[1].votes = 1
        /\ req[r].body[1].options[2].votes = 1

\* the vote's increment was applied to the poll (it is an accepted vote)
accepted(r) == req[r].pc = "respond" \/ req[r].status = 200
\* answered with an error
rejected(r) == done(r) /\ req[r].status \in {404, 400, 429, 409}

\* C3: a poll is created with version 1 and its version is always 1 + the
\* number of accepted votes on it (requests rejected as NotFound,
\* InvalidOption, RateLimited or DuplicateVote are not counted and applied
\* nothing); a step changes a version only by adding 1 to it.
C3_VersionInv ==
    /\ \A p \in DOMAIN polls :
          /\ created[p].data.version = 1
          /\ polls[p].version =
                1 + Cardinality({r \in Reqs : req[r].poll_id = p /\ accepted(r)})
    /\ \A r \in Reqs : rejected(r) => ~req[r].applied /\ ~accepted(r)

C3_VersionStep ==
    \A p \in DOMAIN polls :
        /\ p \in DOMAIN polls'
        /\ polls'[p].version \in {polls[p].version, polls[p].version + 1}

\* C3 as one formula: version = 1 + accepted votes always, and every step
\* leaves a version or adds 1 to it.
C3_Version == []C3_VersionInv /\ [][C3_VersionStep]_vars

\* Two accepted votes took p1 to version 3 and a third request was refused
\* by the rate limit.
C3_Witness ==
    /\ "p1" \in DOMAIN polls /\ polls["p1"].version = 3
    /\ \E r \in Reqs : rejected(r) /\ req[r].poll_id = "p1" /\ req[r].status = 429

\* C4: when every vote request on a poll that got past the rate limit is
\* answered and these M requests carry M distinct voter ids, all M were
\* accepted, total_votes is M, version is 1 + M, and each option's counter
\* is the number of those requests that named it.
C4_NoLostUpdate ==
    \A p \in DOMAIN polls :
        LET S == {r \in Reqs : arrived(r) /\ req[r].poll_id = p /\ ~early_rejected(r)}
            doc == polls[p]
        IN  ( /\ \A r \in S : done(r)
              /\ \A r, q \in S : r # q => req[r].voter_id # req[q].voter_id ) =>
            /\ \A r \in S : req[r].status = 200
            /\ doc.total_votes = Cardinality(S)
            /\ doc.version = 1 + Cardinality(S)
            /\ \A i \in 1..Len(doc.options) :
                  doc.options[i].votes =
                    Cardinality({r \in S : req[r].option_id = doc.options[i].id})

\* Two voters voted for the two options of p1 while both were in vote_poll:
\* the first to arrive read the poll back after the second one's update.
C4_Witness ==
    /\ done(1) /\ done(2) /\ req[1].status = 200 /\ req[2].status = 200
    /\ req[1].voter_id # req[2].voter_id
    /\ req[1].option_id # req[2].option_id
    /\ req[1].body[1].version = 3
    /\ polls["p1"].total_votes = 2

\* ------------------------------------------------ rate limit (C5, C6, C7)
\* the attempt-log entry of request r
attempt_of(r) ==
    [poll_id |-> req[r].poll_id, ip_hash |-> req[r].ip_hash,
     attempted_at |-> req[r].created_at]
in_log(r, log) == \E i \in 1..Len(log) : log[i] = attempt_of(r)

\* same poll, same fingerprint, and q's timestamp inside the window that
\* ends at r's timestamp (boundary included)
in_window_of(q, r) ==
    /\ req[q].poll_id = req[r].poll_id
    /\ req[q].ip_hash = req[r].ip_hash
    /\ req[q].created_at >= req[r].created_at - RATE_LIMIT_WINDOW_SECONDS

\* C5 (as claimed; requests are answered one at a time, so q < r was answered
\* before r arrived): a request to an existing poll with a valid option whose
\* fingerprint sent more than RATE_LIMIT_MAX_ATTEMPTS earlier requests to
\* that poll inside the window is RateLimited, whatever the outcome (200,
\* 409, 400, 429) of the earlier ones.
C5_NextIsRateLimited ==
    \A r \in Reqs :
        ( /\ done(r)
          /\ req[r].status \notin {404, 400}
          /\ Cardinality({q \in Reqs : q < r /\ in_window_of(q, r)
                                        /\ req[q].status # 404})
                > RATE_LIMIT_MAX_ATTEMPTS ) =>
        req[r].status = 429

\* C6 (as claimed): every answered vote request, whatever its outcome, has
\* its entry in the attempt log, one entry per request.
C6_EveryRequestLogged ==
    /\ \A r \in Reqs : done(r) => in_log(r, vote_attempts)
    /\ Len(vote_attempts) >= Cardinality({r \in Reqs : done(r)})

\* passed option validation / the rate check has decided
valid(r) == req[r].logged \/ req[r].pc = "log_attempt"
rate_decided(r) == req[r].logged /\ req[r].pc # "count"

\* rank of r among the valid requests of its fingerprint to its poll inside
\* the window ending at r (r included, boundary included)
window_rank(r) ==
    Cardinality({q \in Reqs : q <= r /\ valid(q) /\ in_window_of(q, r)})

\* C7: with requests answered one at a time, the rate check of the k-th valid
\* request of a fingerprint to a poll inside the window [now - WINDOW, now]
\* (boundary and the request itself included) denies exactly when
\* k > RATE_LIMIT_MAX_ATTEMPTS: requests 1..MAX go on to the ledger, request
\* MAX + 1 is RateLimited and records no vote.
C7_RateCheck ==
    \A r \in Reqs : rate_decided(r) =>
        /\ req[r].status = 429 <=> window_rank(r) > RATE_LIMIT_MAX_ATTEMPTS
        /\ req[r].status = 429 => ~req[r].recorded /\ done(r)
        /\ req[r].status # 429 => req[r].recorded \/ req[r].pc = "insert_vote"
                                  \/ req[r].status = 409

\* The first request (t = 0) was accepted; the second, of another voter from
\* the same address one window later (t = 1, boundary), was RateLimited.
C7_Witness ==
    /\ req[1].status = 200 /\ req[1].created_at = 0
    /\ req[2].status = 429
    /\ req[2].created_at = req[1].created_at + RATE_LIMIT_WINDOW_SECONDS
    /\ req[2].ip_hash = req[1].ip_hash
    /\ req[2].voter_id # req[1].voter_id
    /\ window_rank(2) = RATE_LIMIT_MAX_ATTEMPTS + 1

\* ----------------------------------------------- rejections (C8, C9, C10)
\* the step answers request r with `status`
answers(r, status) == req[r].status # status /\ req'[r].status = status
\* the ledger, every poll document and the notifier are left as they are
store_and_notifier_unchanged ==
    /\ votes' = votes
    /\ polls' = polls
    /\ poll_events' = poll_events
    /\ set_calls' = set_calls
\* the attempt log only grows at its end
log_append_only ==
    /\ Len(vote_attempts') >= Len(vote_attempts)
    /\ SubSeq(vote_attempts', 1, Len(vote_attempts)) = vote_attempts

\* C8: the step that answers a request DuplicateVote (409) leaves every poll
\* document (option counters, total_votes, version, updated_at), the ledger
\* and the notifier unchanged, and the ledger already holds a vote of that
\* voter on that poll; the request applied nothing; while all the votes that
\* reached the ledger of a poll carry one voter id, its version is at most 2.
C8_DuplicateStep ==
    \A r \in Reqs : answers(r, 409) =>
        /\ store_and_notifier_unchanged
        /\ \E x \in votes : x.poll_id = req[r].poll_id /\ x.voter_id = req[r].voter_id

C8_DuplicateInv ==
    /\ \A r \in Reqs : req[r].status = 409 =>
          done(r) /\ ~req[r].recorded /\ ~req[r].applied /\ req[r].body = <<>>
    /\ \A p \in DOMAIN polls :
          Cardinality({x.voter_id : x \in {y \in votes : y.poll_id = p}}) <= 1 =>
              polls[p].version <= 2

\* C8 as one formula: a DuplicateVote request never applied anything, and
\* the step answering 409 changes no poll, no vote and no signal.
C8_Duplicate == []C8_DuplicateInv /\ [][C8_DuplicateStep]_vars

\* A vote was accepted (snapshot version 2); the same voter's vote for the
\* other option was answered 409 and the poll is still at version 2.
C8_Witness ==
    /\ req[1].status = 200 /\ req[1].body[1].version = 2
    /\ req[2].status = 409
    /\ req[2].voter_id = req[1].voter_id /\ req[2].poll_id = req[1].poll_id
    /\ req[2].option_id # req[1].option_id
    /\ polls["p1"].version = 2 /\ polls["p1"].total_votes = 1

\* C9: the step that answers a request RateLimited (429) leaves the ledger,
\* every poll document and the notifier unchanged, and the request's entry is
\* in the attempt log, which only ever grows; a later rate check of the same
\* fingerprint and poll whose window holds that entry counts it (with its own
\* entry and the other rate-limited ones: more than the limit means 429).
C9_RateLimitedStep ==
    /\ log_append_only
    /\ \A r \in Reqs : answers(r, 429) =>
          /\ store_and_notifier_unchanged
          /\ in_log(r, vote_attempts')
    /\ \A q \in Reqs :
          ( /\ req[q].pc = "count" /\ req'[q].pc # "count"
            /\ 1 + Cardinality({r \in Reqs \ {q} : req[r].status = 429
                                                    /\ in_window_of(r, q)})
                  > RATE_LIMIT_MAX_ATTEMPTS ) =>
          req'[q].status = 429

C9_RateLimitedInv ==
    \A r \in Reqs : req[r].status = 429 =>
        /\ done(r) /\ ~req[r].recorded /\ ~req[r].applied /\ req[r].body = <<>>
        /\ in_log(r, vote_attempts)

\* C9 as one formula: a RateLimited request recorded and applied nothing and
\* its attempt is logged; the step answering 429 changes no poll, no vote and
\* no signal.
C9_RateLimited == []C9_RateLimitedInv /\ [][C9_RateLimitedStep]_vars

\* A voter's request was RateLimited; once the window had passed, a later
\* request with the same voter id on the same poll was accepted.
C9_Witness ==
    \E r, q \in Reqs :
        /\ r < q
        /\ req[r].status = 429 /\ req[q].status = 200
        /\ req[q].voter_id = req[r].voter_id /\ req[q].poll_id = req[r].poll_id
        /\ req[q].ip_hash = req[r].ip_hash
        /\ \E x \in votes : x.voter_id = req[r].voter_id /\ x.created_at = req[q].created_at

\* C10: a request that names a missing poll, or an option that is not the
\* poll's, never enters the pipeline; it is answered 404 exactly when the poll
\* is missing at the lookup and 400 exactly when the poll exists, and the
\* steps that route and answer it leave the ledger, every poll document and
\* the notifier unchanged.
C10_InvalidStep ==
    \A r \in Reqs :
        /\ (req[r].pc = "idle" /\ req'[r].pc # "idle") =>
              /\ req'[r].pc = "check_exists" <=>
                    ( \/ req'[r].poll_id \notin DOMAIN polls
                      \/ \A i \in 1..Len(polls[req'[r].poll_id].options) :
                            polls[req'[r].poll_id].options[i].id # req'[r].option_id )
              /\ store_and_notifier_unchanged
        /\ (req[r].pc = "check_exists" /\ req'[r].pc # "check_exists") =>
              /\ req'[r].pc = "done"
              /\ req'[r].status = 404 <=> req[r].poll_id \notin DOMAIN polls
              /\ req'[r].status = 400 <=> req[r].poll_id \in DOMAIN polls
              /\ store_and_notifier_unchanged

\* C10 as a property of every step.
C10_Invalid == [][C10_InvalidStep]_vars

\* One request was answered 404 before p1 existed; another named an option
\* that is not p1's and was answered 400; nothing was recorded.
C10_Witness ==
    /\ \E r \in Reqs : done(r) /\ req[r].status = 404
    /\ \E r \in Reqs :
          /\ done(r) /\ req[r].status = 400
          /\ req[r].poll_id \in DOMAIN polls
          /\ ~option_matches(polls[req[r].poll_id], req[r].option_id)
    /\ votes = {}

\* ------------------------------------------------- notifier (C11, C12, C16, C17)
\* the step in which request r's vote is admitted and its poll signalled
admits(r) == req[r].status # 200 /\ req'[r].status = 200
\* observer o yields a marker in the step
emits(o) == obs'[o].markers = obs[o].markers + 1

\* C11: the step that completes the admission of a vote on a poll resolves
\* the wait of every observer waiting on that poll at that moment, however
\* many they are; an observer whose wait is resolved stays so whatever the
\* other observers clear, and its next step yields a marker (unless its
\* client disconnects), which it eventually does.
C11_WakeStep ==
    /\ \A r \in Reqs : admits(r) =>
          \A o \in Obs : (obs[o].pc = "waiting" /\ obs[o].poll_id = req[r].poll_id) =>
              obs'[o].pc = "woken"
    /\ \A o \in Obs : obs[o].pc = "woken" =>
          \/ obs'[o] = obs[o]
          \/ obs'[o].pc = "closed"
          \/ obs'[o].pc = "sending" /\ emits(o) /\ obs'[o].heard > obs[o].since

\* C11 as one formula: every waiter of the poll is woken by the admission
\* step, and a woken observer goes on to yield its marker.
C11_WaitersWoken ==
    /\ [][C11_WakeStep]_vars
    /\ \A o \in Obs : (obs[o].pc = "woken") ~> (obs[o].pc \in {"sending", "closed"})

\* Both observers called wait() on p1 after its creation and before a vote
\* was admitted, and both yielded a marker after that vote's signal.
C11_Witness ==
    /\ \E r \in Reqs : req[r].status = 200 /\ req[r].poll_id = "p1"
    /\ set_calls["p1"] = 2
    /\ \A o \in Obs : /\ obs[o].poll_id = "p1" /\ obs[o].pc = "sending"
                       /\ obs[o].since = 1 /\ obs[o].heard = 2

\* C12 (as claimed): the notifier is edge-triggered: whenever an observer has
\* just yielded a marker, a signal fired on its poll after it started the
\* wait() that the marker ends; a signal that fired before, with or without
\* an observer waiting at the time, never ends a later wait.
C12_EdgeTriggered ==
    \A o \in Obs : obs[o].pc = "sending" => obs[o].heard > obs[o].since

\* C16 (as claimed): the registry has one entry per poll identifier, and
\* every key of it is the identifier of a created poll, so that it never has
\* more entries than there are polls.
C16_RegistryBounded ==
    /\ DOMAIN poll_events \subseteq DOMAIN polls
    /\ Cardinality(DOMAIN poll_events) <= Cardinality(DOMAIN polls)

\* C17 (as claimed): no streaming observer loses a change: an observer that
\* has yielded markers and is suspended in wait() has yielded one after
\* every signal fired on its poll so far (otherwise, with no further change,
\* it never yields a marker for the last one).
C17_NoLostChange ==
    \A o \in Obs :
        (obs[o].pc = "waiting" /\ obs[o].markers > 0) =>
            obs[o].heard = set_calls[obs[o].poll_id]

\* ------------------------------------------------------ ledger (C13, C19)
ledger_of(poll_id) == {x \in votes : x.poll_id = poll_id}

\* C13: in every reachable state the ledger holds at most one vote per
\* (poll id, voter id) pair, whatever the requests and their interleaving and
\* whatever options they name, and every vote in it is the vote of a request
\* that passed the insert; one voter id can hold a vote on each poll.
C13_OneVotePerPair ==
    /\ \A p \in PollIds, v \in voter_ids :
          Cardinality({x \in ledger_of(p) : x.voter_id = v}) <= 1
    /\ \A x \in votes :
          \E r \in Reqs : /\ req[r].recorded
                          /\ req[r].poll_id = x.poll_id
                          /\ req[r].voter_id = x.voter_id
                          /\ req[r].option_id = x.option_id

\* One voter id holds a vote on p1 and a vote on p2, and its request for the
\* other option of one of these polls was answered 409.
C13_Witness ==
    \E r, q, d \in Reqs :
        /\ req[r].status = 200 /\ req[q].status = 200 /\ req[d].status = 409
        /\ req[r].poll_id = "p1" /\ req[q].poll_id = "p2"
        /\ req[q].voter_id = req[r].voter_id /\ req[d].voter_id = req[r].voter_id
        /\ req[d].poll_id = req[r].poll_id /\ req[d].option_id # req[r].option_id
        /\ Cardinality({x \in votes : x.voter_id = req[r].voter_id}) = 2

\* ------------------------------------------------- aggregate step (C15)
\* the step applies request r's increment to its poll
applies(r) == ~req[r].applied /\ req'[r].applied

\* C15: the step that applies an accepted vote of request r on poll P for
\* option O adds 1 to O's votes, to P's total_votes and to P's version and
\* sets P's updated_at to the request's timestamp, all at once; the votes of
\* P's other options, the id and text of every option and their order, P's
\* question and created_at, and every other poll are as before.  No other
\* step changes an existing poll document.
C15_ApplyStep ==
    /\ \A r \in Reqs : applies(r) =>
          LET P == req[r].poll_id
              old == polls[P]
              new == polls'[P]
              k == first_match(old.options, req[r].option_id)
          IN  /\ new.options[k].votes = old.options[k].votes + 1
              /\ new.total_votes = old.total_votes + 1
              /\ new.version = old.version + 1
              /\ new.updated_at = req[r].created_at
              /\ Len(new.options) = Len(old.options)
              /\ \A i \in 1..Len(old.options) :
                    /\ new.options[i].id = old.options[i].id
                    /\ new.options[i].text = old.options[i].text
                    /\ i # k => new.options[i].votes = old.options[i].votes
              /\ new.question = old.question
              /\ new.created_at = old.created_at
              /\ DOMAIN polls' = DOMAIN polls
              /\ \A q \in DOMAIN polls : q # P => polls'[q] = polls[q]
    /\ (\A r \in Reqs : ~applies(r)) =>
          \A q \in DOMAIN polls : q \in DOMAIN polls' /\ polls'[q] = polls[q]

\* C15 as a property of every step.
C15_ApplyFrame == [][C15_ApplyStep]_vars

\* A vote for the second option of p1 was applied at instant 1 to a document
\* created at instant 0 that already counted a vote for its first option,
\* while p2 held a vote of its own.
C15_Witness ==
    /\ DOMAIN polls = PollIds
    /\ polls["p1"].options[1].votes = 1 /\ polls["p1"].options[2].votes = 1
    /\ polls["p1"].created_at = 0 /\ polls["p1"].updated_at = 1
    /\ polls["p1"].version = 3
    /\ polls["p2"].total_votes = 1

\* ------------------------------------------------ pipeline order (C14)
\* steps of request r, read off its history flags
logs(r) == ~req[r].logged /\ req'[r].logged
records(r) == ~req[r].recorded /\ req'[r].recorded
\* the vote of request r is in the ledger
own_vote(r) ==
    \E x \in votes : /\ x.poll_id = req[r].poll_id /\ x.voter_id = req[r].voter_id
                      /\ x.option_id = req[r].option_id

\* C14, the stages: a request is past a stage only after the stages before
\* it (validation, log, rate check, ledger, aggregate, notifier, response),
\* and a request that left at a gate did none of the later ones.
C14_StagesInv ==
    \A r \in Reqs :
        /\ req[r].logged => find_poll_option(polls, req[r].poll_id, req[r].option_id)
        /\ req[r].recorded => req[r].logged /\ req[r].pc \notin {"count", "insert_vote"}
        /\ req[r].applied => req[r].recorded /\ own_vote(r)
        /\ req[r].status = 200 => req[r].applied /\ done(r) /\ req[r].body # <<>>
        /\ req[r].status \in {404, 400} =>
              ~req[r].logged /\ ~req[r].recorded /\ ~req[r].applied
        /\ req[r].status \in {429, 409} =>
              req[r].logged /\ ~req[r].recorded /\ ~req[r].applied
        /\ req[r].status # 200 => req[r].body = <<>> /\ req[r].set_cookie = <<>>
        /\ req[r].pc = "log_attempt" => ~req[r].logged
        /\ req[r].pc \in {"count", "insert_vote"} => req[r].logged /\ ~req[r].recorded
        /\ req[r].pc = "update" => req[r].recorded /\ ~req[r].applied
        /\ req[r].pc = "respond" => req[r].applied

\* C14, the steps: each write is the step of one request that did the stage
\* before it in an earlier step: the log is appended by a validated request,
\* the ledger insert is tried after the rate check passed, a poll document is
\* incremented only by a request whose own ledger insert succeeded earlier,
\* and a vote request sets the poll's event only after its own increment; an
\* answered request takes no further step.
C14_StagesStep ==
    /\ \A r \in Reqs :
          /\ done(r) => req'[r] = req[r]
          /\ logs(r) => /\ req[r].pc = "log_attempt"
                        /\ vote_attempts' = Append(vote_attempts, attempt_of(r))
          /\ records(r) => /\ req[r].logged /\ req[r].pc = "insert_vote"
                           /\ polls' = polls
          /\ applies(r) => /\ req[r].recorded /\ own_vote(r) /\ req[r].pc = "update"
                           /\ votes' = votes /\ set_calls' = set_calls
          /\ admits(r) => /\ req[r].applied /\ req[r].pc = "respond"
                          /\ polls' = polls
                          /\ set_calls'[req[r].poll_id] = set_calls[req[r].poll_id] + 1
    /\ vote_attempts' # vote_attempts => \E r \in Reqs : logs(r)
    /\ votes' # votes => \E r \in Reqs : records(r)
    /\ (\E p \in DOMAIN polls : polls'[p] # polls[p]) => \E r \in Reqs : applies(r)
    /\ set_calls' # set_calls =>
          \/ \E r \in Reqs : admits(r)
          \/ \E p \in PollIds : p \notin DOMAIN polls /\ p \in DOMAIN polls'

\* C14 as one formula.
C14_PipelineOrder == []C14_StagesInv /\ [][C14_StagesStep]_vars

\* One request went through every stage and was accepted, one left at the
\* ledger gate (409) and one left at the rate check (429).
C14_Witness ==
    \E r, d, l \in Reqs :
        /\ req[r].status = 200 /\ req[d].status = 409 /\ req[l].status = 429
        /\ set_calls["p1"] = 2 /\ Len(vote_attempts) = 3
        /\ Cardinality(votes) = 1 /\ polls["p1"].version = 2

\* ------------------------------------- rate limit under concurrency (C18)
\* request r went past the rate check
passed(r) == rate_decided(r) /\ req[r].status # 429
\* the valid requests of one fingerprint to one poll stamped within the span
\* of RATE_LIMIT_WINDOW_SECONDS seconds that starts at t0 (ends included)
in_span(poll_id, ip_hash, t0) ==
    {r \in Reqs : /\ valid(r)
                  /\ req[r].poll_id = poll_id /\ req[r].ip_hash = ip_hash
                  /\ req[r].created_at >= t0
                  /\ req[r].created_at <= t0 + RATE_LIMIT_WINDOW_SECONDS}
fingerprints == {req[r].ip_hash : r \in {q \in Reqs : arrived(q)}}

\* C18, the bound: however the vote requests interleave, of the requests of
\* one fingerprint to one poll stamped within one span of
\* RATE_LIMIT_WINDOW_SECONDS seconds at most RATE_LIMIT_MAX_ATTEMPTS pass the
\* rate check.
C18_BoundInv ==
    \A p \in PollIds, f \in fingerprints, t0 \in 0..MaxTime :
        Cardinality({r \in in_span(p, f, t0) : passed(r)}) <= RATE_LIMIT_MAX_ATTEMPTS

\* C18, the reason: a request counts after appending its own attempt, so
\* its count covers every request of a span around it appended so far.
C18_CountStep ==
    \A r \in Reqs : (req[r].pc = "count" /\ req'[r].pc # "count") =>
        \A t0 \in 0..MaxTime :
            r \in in_span(req[r].poll_id, req[r].ip_hash, t0) =>
                count_documents(vote_attempts, req[r].poll_id, req[r].ip_hash,
                                window_start(req[r].created_at))
                  >= Cardinality({q \in in_span(req[r].poll_id, req[r].ip_hash, t0) :
                                     req[q].logged})

\* C18 as one formula.
C18_ConcurrentRateLimit == []C18_BoundInv /\ [][C18_CountStep]_vars

\* Two requests of one fingerprint were in vote_poll together: both appended
\* their attempts before either counted, and both were RateLimited.
C18_Witness ==
    /\ req[1].status = 429 /\ req[2].status = 429
    /\ req[1].ip_hash = req[2].ip_hash /\ req[1].poll_id = req[2].poll_id
    /\ req[1].created_at = req[2].created_at
    /\ Len(vote_attempts) = 2 /\ votes = {}

\* C19: in every reachable state, for each poll, each option's votes is at
\* most the number of ledger votes for that poll and option, and total_votes
\* is at most the number of ledger votes for the poll; when no vote request
\* on the poll is between its ledger insert and its aggregate update, they
\* are equal.
C19_LedgerMatchesAggregate ==
    \A p \in DOMAIN polls :
        LET doc == polls[p]
            for_option(i) == {x \in ledger_of(p) : x.option_id = doc.options[i].id}
            between == {r \in Reqs : req[r].poll_id = p /\ req[r].pc = "update"}
        IN  /\ \A i \in 1..Len(doc.options) :
                  doc.options[i].votes <= Cardinality(for_option(i))
            /\ doc.total_votes <= Cardinality(ledger_of(p))
            /\ between = {} =>
                  /\ \A i \in 1..Len(doc.options) :
                        doc.options[i].votes = Cardinality(for_option(i))
                  /\ doc.total_votes = Cardinality(ledger_of(p))

\* The ledger holds two votes on p1, one for each option; one is counted in
\* the document and the request of the other has not updated it yet.
C19_Witness ==
    /\ Cardinality(ledger_of("p1")) = 2
    /\ polls["p1"].total_votes = 1
    /\ polls["p1"].options[1].votes = 1 /\ polls["p1"].options[2].votes = 0
    /\ \E r \in Reqs : /\ req[r].pc = "update" /\ req[r].poll_id = "p1"
                       /\ req[r].option_id = option_token("p1", 2)

\* ------------------------------------------------ returned snapshot (C20)
\* C20, the snapshot: what an accepted vote request got back has
\* total_votes equal to the sum of its option counters, a version at least
\* the version the request's own increment produced, and a counter of the
\* chosen option that includes the request's own vote.
C20_SnapshotInv ==
    \A r \in Reqs : req[r].status = 200 =>
        LET snap == req[r].body[1]
            k == first_match(snap.options, req[r].option_id)
        IN  /\ snap.id = req[r].poll_id
            /\ snap.total_votes = sum_votes(snap.options)
            /\ req[r].version_after >= 2
            /\ snap.version >= req[r].version_after
            /\ req[r].votes_after >= 1
            /\ snap.options[k].votes >= req[r].votes_after
            /\ snap.total_votes >= req[r].version_after - 1

\* C20, the read: the snapshot is the poll document as it is at the instant
\* of the read, which comes after the request's own increment.
C20_SnapshotStep ==
    \A r \in Reqs : admits(r) =>
        /\ req[r].applied
        /\ req'[r].body = <<serialize_poll(req[r].poll_id, polls[req[r].poll_id])>>
        /\ polls' = polls

\* C20 as one formula.
C20_Snapshot == []C20_SnapshotInv /\ [][C20_SnapshotStep]_vars

\* Two voters were accepted while both were in vote_poll: their increments
\* produced versions 2 and 3 and both got the snapshot at version 3.
C20_Witness ==
    \E r, q \in Reqs :
        /\ req[r].status = 200 /\ req[q].status = 200
        /\ req[r].version_after = 2 /\ req[q].version_after = 3
        /\ req[r].body[1].version = 3 /\ req[q].body[1].version = 3
        /\ req[r].body[1].total_votes = 2

====
